---- MODULE Spec2Model ----
(***************************************************************************)
(* State-machine model of gdx.File (src/gdx/__init__.py): the constructor  *)
(* (symbol metadata pass, eager Set loading, optional eager pass), the     *)
(* lazy loading pipeline (_load_symbol_data, _cache_data, _infer_domain,   *)
(* _add_symbol), element access (__getitem__), dealias, extract, info,     *)
(* sets and parameters.                                                    *)
(*                                                                         *)
(* Values are strings throughout: labels are "a", "b", ...; the level of a *)
(* record is "1", "2", ...; numpy.nan is "nan"; True/False of a boolean    *)
(* membership array are "T"/"F"; the fill value of a sub-Set is "".        *)
(* A key of the data dict is the tuple of labels of the record.            *)
(***************************************************************************)
EXTENDS Integers, Sequences, FiniteSets, TLC

\* Number of calls made on the File after the constructor returned.
MaxOps == 2

Range(s) == {s[x] : x \in DOMAIN s}

Star == "*"
Fill == ""
NaN == "nan"
NoErr == ""

GMS_DT_SET == "GMS_DT_SET"
GMS_DT_PAR == "GMS_DT_PAR"
GMS_DT_VAR == "GMS_DT_VAR"
GMS_DT_EQU == "GMS_DT_EQU"
GMS_DT_ALIAS == "GMS_DT_ALIAS"

AliasPrefix == "Aliased with "

(***************************************************************************)
(* The GDX file as the API presents it: for each symbol number what        *)
(* symbol_info, symbol_info_x and symbol_get_domain_x return, the count    *)
(* data_read_str_start returns (records2) and the records data_read_str    *)
(* yields before it raises.                                                *)
(***************************************************************************)
Rec(labels, value) == [labels |-> labels, value |-> value]

Sym(name, type_code, dim, domain, records, stream) ==
    [name |-> name, type_code |-> type_code, dim |-> dim, domain |-> domain,
     records |-> records, records2 |-> records, stream |-> stream,
     desc |-> <<"">>]

AliasSym(name, parent) ==
    [name |-> name, type_code |-> GMS_DT_ALIAS, dim |-> 1, domain |-> <<>>,
     records |-> 0, records2 |-> 0, stream |-> <<>>,
     desc |-> <<AliasPrefix, parent>>]

\* 1-D records with the given labels; the level of the n-th record is n.
Recs1(labels) == [n \in DOMAIN labels |-> Rec(<<labels[n]>>, ToString(n))]

\* Symbol 0, the universal set: symbol_get_domain_x fails, domain = [].
Universe == Sym(Star, GMS_DT_SET, 1, <<>>, 3, Recs1(<<"a", "b", "c">>))
SetI == Sym("i", GMS_DT_SET, 1, <<Star>>, 2, Recs1(<<"a", "b">>))
SetJ == Sym("j", GMS_DT_SET, 1, <<"i">>, 1, Recs1(<<"a">>))
SetK == Sym("k", GMS_DT_SET, 1, <<Star>>, 2, Recs1(<<"a", "c">>))

\* Declared record count and labels streamed for the parameter p of the
\* first family: matching, fewer, more, repeated keys.
ParData ==
    {<<0, <<>>>>, <<1, <<"a">>>>, <<1, <<"b">>>>, <<1, <<"c">>>>,
     <<2, <<"a", "b">>>>, <<2, <<"b", "c">>>>,
     <<2, <<"a">>>>, <<1, <<"a", "b">>>>,
     <<1, <<"a", "a">>>>, <<2, <<"a", "b", "a">>>>}

ParDomains == {<<Star>>, <<"i">>, <<"j">>}

\* Sets i, j(i), k and a 1-D parameter p over *, i or j.
FilesA ==
    {<<Universe, SetI, SetJ, SetK,
       Sym("p", GMS_DT_PAR, 1, d, x[1], Recs1(x[2]))>> :
        d \in ParDomains, x \in ParData}

\* Scalars: declared count n, k records streamed, each with the key ().
FilesB ==
    {<<Universe, SetI, AliasSym("q", "i"),
       Sym("e", GMS_DT_EQU, 1, <<"i">>, 1, <<>>),
       Sym("s", GMS_DT_PAR, 0, <<>>, n, [x \in 1..k |-> Rec(<<>>, ToString(x))]),
       Sym("v", GMS_DT_VAR, 1, <<"i">>, 1, Recs1(<<"b">>))>> :
        n \in {0, 1}, k \in {0, 1, 2}}

\* Other kinds and shapes.
FilesC ==
    {
     \* the empty SameAs(*,*) artefact, a 2-D Set and a 2-D Parameter
     <<Universe, SetI, SetK,
       Sym("SameAs", GMS_DT_SET, 2, <<Star, Star>>, 0, <<>>),
       Sym("m", GMS_DT_SET, 2, <<"i", "k">>, 1, <<Rec(<<"a", "c">>, "0")>>),
       SetJ,
       Sym("w", GMS_DT_PAR, 2, <<"j", Star>>, 1, <<Rec(<<"a", "c">>, "1")>>)>>,
     \* a record of w outside its declared first dimension
     <<Universe, SetI, SetJ,
       Sym("w", GMS_DT_PAR, 2, <<"j", Star>>, 1, <<Rec(<<"b", "a">>, "1")>>),
       AliasSym("q", "j")>>,
     \* Alias of a Parameter
     <<Universe, SetI, Sym("p", GMS_DT_PAR, 1, <<"i">>, 1, Recs1(<<"a">>)),
       AliasSym("q", "p")>>,
     \* Alias of an Equation
     <<Universe, Sym("e", GMS_DT_EQU, 1, <<Star>>, 0, <<>>),
       AliasSym("q", "e")>>,
     \* a sub-Set with a label missing from its root
     <<Universe, SetI, Sym("j", GMS_DT_SET, 1, <<"i">>, 1, Recs1(<<"c">>))>>,
     \* gdxSymbolInfoX and gdxDataReadStrStart disagree
     <<Universe, SetI,
       [Sym("p", GMS_DT_PAR, 1, <<"i">>, 1, Recs1(<<"a">>))
            EXCEPT !.records2 = 2]>>
    }

Files == FilesA \cup FilesB \cup FilesC

NamesOf(f) == {f[n].name : n \in DOMAIN f}

\* Every name of a file, and one name no file declares.
Names == UNION {NamesOf(f) : f \in Files} \cup {"nx"}

SkipSets == {{}, {"i"}, {"j"}, {"p"}, {"s"}}

None == "None"

(***************************************************************************)
(* Values of self._state[name]: missing from the dict ("absent"), a dict   *)
(* with 'attrs' and, once _cache_data ran, 'data' and 'elements' ("dict"), *)
(* True or None.  data is the dict in insertion order.                     *)
(***************************************************************************)
NoAttrs ==
    [index |-> 0, name |-> "", dim |-> 0, type_code |-> "", records |-> 0,
     domain |-> <<>>, domain_inferred |-> <<>>]

NoState ==
    [tag |-> "absent", cached |-> FALSE, data |-> <<>>, elements |-> <<>>,
     attrs |-> NoAttrs]

DictState(attrs) == [NoState EXCEPT !.tag = "dict", !.attrs = attrs]
TrueState == [NoState EXCEPT !.tag = "True"]
NoneState == [NoState EXCEPT !.tag = "None"]

\* The File right after "Initialize private variables".
NewFile(api) ==
    [api |-> api,
     index |-> [n \in 1..Len(api) |-> None],
     state |-> [n \in Names |-> NoState],
     alias |-> [n \in Names |-> ""],
     variables |-> [n \in Names |-> 0],
     order |-> <<>>,
     coord_names |-> {},
     heap |-> <<>>,
     streams |-> [n \in Names |-> 0],
     err |-> NoErr]

Raise(f, e) == [f EXCEPT !.err = e]
Failed(f) == f.err # NoErr

\* xray.Dataset state: _variables maps a name to a Variable object (a heap
\* slot); order is the insertion order of _variables.
HasVar(f, key) == f.variables[key] # 0
Var(f, key) == f.heap[f.variables[key]]
NDim(f, key) == Len(Var(f, key).dims)
Values(f, key) == Range(Var(f, key).cells)
AxisIndex(f, axis) == Var(f, axis).index
LenOf(f, key) == Len(AxisIndex(f, Var(f, key).dims[1]))
Coords(f) == SelectSeq(f.order, LAMBDA n : n \in f.coord_names)

\* Dataset.__setitem__(name, (dims, values, attrs))
SetItem(f, name, obj) ==
    [f EXCEPT !.heap = Append(@, obj),
              !.variables[name] = Len(f.heap) + 1,
              !.order = IF name \in Range(@) THEN @ ELSE Append(@, name)]

\* Dataset.coords.__setitem__
SetCoord(f, name, obj) ==
    [SetItem(f, name, obj) EXCEPT !.coord_names = @ \cup {name}]

RECURSIVE Product(_)
Product(ls) ==
    IF ls = <<>> THEN {<<>>}
    ELSE {<<h>> \o t : h \in Range(Head(ls)), t \in Product(Tail(ls))}

\* data[key] = value
Put(data, key, value) ==
    IF \E n \in DOMAIN data : data[n].key = key
    THEN [n \in DOMAIN data |->
            IF data[n].key = key THEN [key |-> key, value |-> value]
            ELSE data[n]]
    ELSE Append(data, [key |-> key, value |-> value])

DataKeys(data) == [n \in DOMAIN data |-> data[n].key]

\* The read loop of _cache_data, up to the exception of data_read_str.
RECURSIVE ReadLoop(_, _, _)
ReadLoop(stream, data, elements) ==
    IF stream = <<>> THEN [data |-> data, elements |-> elements]
    ELSE LET rec == Head(stream)
             els == [j \in DOMAIN elements |->
                        IF rec.labels[j] \in Range(elements[j]) THEN elements[j]
                        ELSE Append(elements[j], rec.labels[j])]
         IN ReadLoop(Tail(stream), Put(data, rec.labels, rec.value), els)

\* "if len(data) == records: pass  else: raise"
AllDataRead(data, records) == Len(data) = records

CacheData(f, name, index, dim, records) ==
    LET sym == f.api[index + 1]
        f1 == [f EXCEPT !.streams[name] = @ + 1]
        r == ReadLoop(sym.stream, <<>>, [j \in 1..dim |-> <<>>])
    IN IF records # sym.records2 THEN Raise(f1, "AssertionError")
       ELSE IF AllDataRead(r.data, records)
       THEN [f1 EXCEPT !.state[name].data = r.data,
                       !.state[name].elements = r.elements,
                       !.state[name].cached = TRUE]
       ELSE Raise(f1, "ReadError")

\* A guard that skips only the symbols marked None.
AlreadyLoaded_NoneOnly(s) == s.tag = "None"

\* "Skip Symbols already loaded"
AlreadyLoaded(s) == s.tag \in {"True", "None"}

\* The test of the inner loop of _infer_domain.
Smaller(f, s, e, d) ==
    NDim(f, s) = 1 /\ e \subseteq Values(f, s) /\ LenOf(f, s) < LenOf(f, d)

RECURSIVE ScanCoords(_, _, _, _)
ScanCoords(f, cs, e, d) ==
    IF cs = <<>> THEN d
    ELSE ScanCoords(f, Tail(cs), e,
                    IF Smaller(f, Head(cs), e, d) THEN Head(cs) ELSE d)

\* An alias that gets a Variable of its own, with the parent's content.
AliasVariable_Copy(f, name, parent) == SetItem(f, name, Var(f, parent))

\* self._variables[name] = self._variables[parent]
AliasVariable(f, name, parent) ==
    [f EXCEPT !.variables[name] = f.variables[parent],
              !.order = IF name \in Range(@) THEN @ ELSE Append(@, name)]

RECURSIVE GetItem(_, _)
RECURSIVE GetItems(_, _)
RECURSIVE LoadSymbolData(_, _)
RECURSIVE RootDim(_, _)
RECURSIVE RootDims(_, _)
RECURSIVE StoreElements(_, _, _, _)

\* __getitem__, after _load_symbol_data: "return super().__getitem__(key)"
GetItemLoaded(f1, key) ==
    IF Failed(f1) THEN f1
    ELSE IF HasVar(f1, key) THEN f1
    ELSE Raise(f1, "KeyError")

\* File.__getitem__: self._state[key] raises KeyError for an unknown key
GetItem(f, key) ==
    IF HasVar(f, key) THEN f
    ELSE IF f.state[key].tag = "dict"
    THEN GetItemLoaded(LoadSymbolData(f, key), key)
    ELSE Raise(f, "KeyError")

GetItemsRest(f1, keys) ==
    IF Failed(f1) THEN f1 ELSE GetItems(f1, Tail(keys))

\* [self[d] for d in domain]
GetItems(f, keys) ==
    IF keys = <<>> THEN f
    ELSE GetItemsRest(GetItem(f, Head(keys)), keys)

\* _root_dim, after "self[dim]"
RootDimOf(f1, dim) ==
    IF Failed(f1) THEN [f |-> f1, val |-> dim]
    ELSE IF Var(f1, dim).dims[1] = dim THEN [f |-> f1, val |-> dim]
    ELSE RootDim(f1, Var(f1, dim).dims[1])

\* File._root_dim
RootDim(f, dim) == RootDimOf(GetItem(f, dim), dim)

RootDimsCons(h, t) == [f |-> t.f, val |-> <<h.val>> \o t.val]

RootDimsRest(h, domain) ==
    IF Failed(h.f) THEN [f |-> h.f, val |-> <<>>]
    ELSE RootDimsCons(h, RootDims(h.f, Tail(domain)))

\* [self._root_dim(d) for d in domain]
RootDims(f, domain) ==
    IF domain = <<>> THEN [f |-> f, val |-> <<>>]
    ELSE RootDimsRest(RootDim(f, Head(domain)), domain)

\* "if d.name != '*' or len(e) == 0": the stated domain is kept
Stated(domain, elements, i) == domain[i] # Star \/ elements[i] = <<>>

\* the loop over the dimensions of _infer_domain
Inferred(f1, domain, elements) ==
    [i \in DOMAIN domain |->
        IF Stated(domain, elements, i) THEN domain[i]
        ELSE ScanCoords(f1, Coords(f1), Range(elements[i]), domain[i])]

\* "if domain != inferred: ... ['domain_inferred'] = inferred"
StoreInferred(f1, name, domain, inferred) ==
    [f |-> IF domain # inferred
           THEN [f1 EXCEPT !.state[name].attrs.domain_inferred = inferred]
           ELSE f1,
     domain |-> inferred]

\* _infer_domain, after "domain_ = [self[d] for d in domain]"
InferChecked(f1, name, domain, elements) ==
    IF Failed(f1) THEN [f |-> f1, domain |-> domain]
    ELSE IF \E i \in DOMAIN domain :
               Stated(domain, elements, i)
               /\ ~(Range(elements[i]) \subseteq Values(f1, domain[i]))
    THEN [f |-> Raise(f1, "AssertionError"), domain |-> domain]
    ELSE StoreInferred(f1, name, domain, Inferred(f1, domain, elements))

\* File._infer_domain
InferDomain(f, name, domain, elements) ==
    IF Star \notin Range(domain) THEN [f |-> f, domain |-> domain]
    ELSE InferChecked(GetItems(f, domain), name, domain, elements)

\* "for k in data.keys(): self[name].loc[k] = k if dim == 1 else True"
StoreElements(f, name, keys, dim) ==
    IF keys = <<>> THEN f
    ELSE IF Head(keys) \notin DOMAIN Var(f, name).cells
    THEN Raise(f, "KeyError")
    ELSE StoreElements(
            [f EXCEPT !.heap[f.variables[name]].cells[Head(keys)] =
                          IF dim = 1 THEN Head(keys)[1] ELSE "T"],
            name, Tail(keys), dim)

\* from_series(pandas.Series(data)).reindex_like(self[name]); the nan
\* entries added to data before leave the values unchanged
SetValues(f2, name, keys, data) ==
    [f2 EXCEPT !.heap[f2.variables[name]].cells =
        [k \in keys |->
            IF k \in Range(DataKeys(data))
            THEN data[CHOOSE n \in DOMAIN data : data[n].key = k].value
            ELSE NaN]]

\* _empty: one slot per position of self[d], for d in domain
Empty(f1, dims, domain, fill, attrs) ==
    [dims |-> dims, index |-> <<>>,
     cells |-> [k \in Product([i \in DOMAIN domain |->
                                 AxisIndex(f1, Var(f1, domain[i]).dims[1])])
                  |-> fill],
     attrs |-> attrs]

\* _add_symbol, from "self.coords.__setitem__" / "super().__setitem__" on
AddOver(f1, dims, name, dim, domain, attrs, data) ==
    IF Failed(f1) THEN f1
    ELSE IF attrs.type_code = GMS_DT_SET
    THEN StoreElements(
            SetCoord(f1, name,
                     Empty(f1, dims, domain, IF dim = 1 THEN Fill ELSE "F",
                           attrs)),
            name, DataKeys(data), dim)
    ELSE SetValues(SetItem(f1, name, Empty(f1, dims, domain, NaN, attrs)),
                   name, DOMAIN Empty(f1, dims, domain, NaN, attrs).cells,
                   data)

\* _add_symbol, after "dims = [self._root_dim(d) for d in domain]"
AddArray(r, name, dim, domain, attrs, data) ==
    IF Failed(r.f) THEN r.f
    ELSE AddOver(GetItems(r.f, domain), r.val, name, dim, domain, attrs, data)

\* _add_symbol, after "self._state[name] = True"
AddErased(f0, name, dim, domain, attrs, data, elements) ==
    IF dim = 0
    THEN IF data = <<>> THEN Raise(f0, "KeyError")
         ELSE SetItem(f0, name,
                      [dims |-> <<>>, index |-> <<>>,
                       cells |-> [k \in {<<>>} |-> data[Len(data)].value],
                       attrs |-> attrs])
    ELSE IF attrs.type_code = GMS_DT_SET /\ dim = 1
            /\ (domain = <<Star>> \/ domain = <<>> \/ domain = <<name>>)
    THEN SetCoord(f0, name,
                  [dims |-> <<name>>, index |-> elements[1],
                   cells |-> [k \in {<<l>> : l \in Range(elements[1])} |-> k[1]],
                   attrs |-> attrs])
    ELSE AddArray(RootDims(f0, domain), name, dim, domain, attrs, data)

\* "Erase the cache": self._state[name] = True
Erase(f, name) == [f EXCEPT !.state[name] = TrueState]

\* File._add_symbol
AddSymbol(f, name, dim, domain, attrs) ==
    AddErased(Erase(f, name), name, dim, domain, attrs,
              f.state[name].data, f.state[name].elements)

\* _load_symbol_data, after _infer_domain
LoadInferred(r, name, dim) ==
    IF Failed(r.f) THEN r.f
    ELSE AddSymbol(r.f, name, dim, r.domain, r.f.state[name].attrs)

\* _load_symbol_data, after _cache_data
LoadCached(f1, name, attrs) ==
    IF Failed(f1) THEN f1
    ELSE IF name = "SameAs" /\ attrs.domain = <<Star, Star>>
            /\ attrs.records = 0
    THEN [f1 EXCEPT !.state[name] = NoneState,
                    !.index[attrs.index + 1] = None]
    ELSE LoadInferred(
            InferDomain(f1, name, attrs.domain, f1.state[name].elements),
            name, attrs.dim)

\* File._load_symbol_data: self._state[name] raises KeyError for an unknown name
LoadSymbolData(f, name) ==
    IF f.state[name].tag = "absent" THEN Raise(f, "KeyError")
    ELSE IF AlreadyLoaded(f.state[name]) THEN f
    ELSE LoadCached(
            CacheData(f, name, f.state[name].attrs.index,
                      f.state[name].attrs.dim, f.state[name].attrs.records),
            name, f.state[name].attrs)

\* desc.replace('Aliased with ', '')
ParentOf(desc) == SelectSeq(desc, LAMBDA t : t # AliasPrefix)[1]

\* _load_symbol for an Alias, after "self[parent]"
LoadAlias(f1, name, parent) ==
    IF Failed(f1) THEN f1
    ELSE IF Var(f1, parent).attrs.type_code = GMS_DT_SET
    THEN [AliasVariable(f1, name, parent) EXCEPT
             !.state[name] = TrueState,
             !.coord_names = @ \cup {name}]
    ELSE Raise(f1, "NotImplementedError")

\* the attrs dict of _load_symbol
Attrs(sym, index) ==
    [index |-> index, name |-> sym.name, dim |-> sym.dim,
     type_code |-> sym.type_code, records |-> sym.records,
     domain |-> sym.domain, domain_inferred |-> <<>>]

\* _load_symbol, after "self._index[index] = name"
LoadKind(f0, sym, index) ==
    IF sym.type_code = GMS_DT_EQU
    THEN [f0 EXCEPT !.state[sym.name] = NoneState]
    ELSE IF sym.type_code = GMS_DT_ALIAS
    THEN LoadAlias(GetItem([f0 EXCEPT !.alias[sym.name] = ParentOf(sym.desc)],
                           ParentOf(sym.desc)),
                   sym.name, ParentOf(sym.desc))
    ELSE [f0 EXCEPT !.state[sym.name] = DictState(Attrs(sym, index))]

\* File._load_symbol
LoadSymbol(f, index) ==
    LoadKind([f EXCEPT !.index[index + 1] = f.api[index + 1].name],
             f.api[index + 1], index)

\* File.dealias: the key that is looked up
DealiasKey(f, name) == IF f.alias[name] # "" THEN f.alias[name] ELSE name

\* File._loaded_and_cached
LoadedAndCached(f, type_code) ==
    {n \in Names :
        \/ f.state[n].tag = "True" /\ HasVar(f, n)
           /\ Var(f, n).attrs.type_code = type_code
        \/ f.state[n].tag = "dict" /\ f.state[n].attrs.type_code = type_code}

\* self._variables[name] raises KeyError for a state of True without a variable
LoadedAndCachedFails(f) ==
    \E n \in Names : f.state[n].tag = "True" /\ ~HasVar(f, n)

\* File.info
Info(f, name) ==
    IF f.state[name].tag = "absent" THEN Raise(f, "KeyError")
    ELSE IF f.state[name].tag = "dict" THEN f
    ELSE GetItem(f, name)

(***************************************************************************)
(* File.extract.  The result is described by its axes (dims), the labels   *)
(* left on each axis and the coordinates it carries.  Deleting a           *)
(* coordinate that is an axis of the result removes the axis and every     *)
(* variable on it, the array included: the reduction that follows fails.   *)
(***************************************************************************)
NoExtract == [dims |-> <<>>, labels |-> <<>>, coords |-> {}]

\* coordinates carried by self[name]: those over axes of the array
ResultCoords(f, name) ==
    {c \in f.coord_names :
        Range(Var(f, c).dims) \subseteq Range(Var(f, name).dims)}

\* result.dropna(dim='*', how='all'): labels of an axis with a non-nan cell
NotAllNaN(f, name, axis) ==
    {l \in Range(AxisIndex(f, Var(f, name).dims[axis])) :
        \E k \in DOMAIN Var(f, name).cells :
            k[axis] = l /\ Var(f, name).cells[k] # NaN}

\* "Reduce the data": the labels left on axis i, declared c over root p
ReducedLabels(f, name, c, p, i) ==
    IF c = Star THEN NotAllNaN(f, name, i)
    ELSE IF c = p THEN Range(AxisIndex(f, p))
    ELSE Range(AxisIndex(f, p)) \ (Values(f, p) \ Values(f, c))

\* rename({p: c})
Renamed(domain, roots, n) ==
    IF \E i \in DOMAIN domain : roots[i] = n /\ domain[i] # Star
    THEN domain[CHOOSE i \in DOMAIN domain : roots[i] = n]
    ELSE n

\* "Drop extraneous dimensions"
Extraneous(f, name, domain, roots) ==
    ResultCoords(f, name) \ (Range(domain) \cup Range(roots))

\* extract, after "dims = {c: self._root_dim(c) for c in ...}"
ExtractReduce(f3, name, domain, roots) ==
    IF Failed(f3) THEN [f |-> f3, ex |-> NoExtract]
    ELSE IF Extraneous(f3, name, domain, roots)
                \cap Range(Var(f3, name).dims) # {}
    THEN [f |-> Raise(f3, "KeyError"),
          ex |-> [dims |-> SelectSeq(Var(f3, name).dims,
                            LAMBDA d : d \notin Extraneous(f3, name, domain, roots)),
                  labels |-> <<>>, coords |-> {}]]
    ELSE [f |-> f3,
          ex |-> [dims |-> [i \in DOMAIN Var(f3, name).dims |->
                               Renamed(domain, roots, Var(f3, name).dims[i])],
                  labels |-> [i \in DOMAIN Var(f3, name).dims |->
                                 ReducedLabels(f3, name, domain[i], roots[i], i)],
                  coords |-> {Renamed(domain, roots, c) :
                                c \in ResultCoords(f3, name)
                                        \ Extraneous(f3, name, domain, roots)}]]

ExtractRoots(r, name, domain) == ExtractReduce(r.f, name, domain, r.val)

\* extract, after "result = self[name].copy()"
ExtractResult(f2, name) ==
    IF Failed(f2) THEN [f |-> f2, ex |-> NoExtract]
    ELSE ExtractRoots(RootDims(f2, Var(f2, name).attrs.domain), name,
                      Var(f2, name).attrs.domain)

\* extract, after "self._load_symbol_data(name)"
ExtractLoaded(f1, name) ==
    IF Failed(f1) THEN [f |-> f1, ex |-> NoExtract]
    ELSE ExtractResult(GetItem(f1, name), name)

\* File.extract
Extract(f, name) == ExtractLoaded(LoadSymbolData(f, name), name)

\* A first loop that loads every kind of symbol.
LoadsWhenRead_AnyKind(sym, skipped) == sym.name \notin skipped

\* "if type_code == gdxcc.GMS_DT_SET and name not in skip"
LoadsWhenRead(sym, skipped) ==
    sym.type_code = GMS_DT_SET /\ sym.name \notin skipped

ReadLoaded(f1, sym, skipped) ==
    IF ~Failed(f1) /\ LoadsWhenRead(sym, skipped)
    THEN LoadSymbolData(f1, sym.name)
    ELSE f1

\* the body of "for s_num in range(sc + 1)"
ReadOne(f, index, skipped) ==
    ReadLoaded(LoadSymbol(f, index), f.api[index + 1], skipped)

\* the body of "for name in filter(None, self._index)"
EagerOne(f, name, skipped) ==
    IF name # None /\ name \notin skipped THEN LoadSymbolData(f, name) ELSE f

(***************************************************************************)
(* The state machine.                                                      *)
(***************************************************************************)
VARIABLES
    self,   \* the File object (and the GDX file it reads, self.api)
    lazy,   \* constructor argument
    skip,   \* constructor argument
    pc,     \* "open": first loop of __init__; "eager": second loop;
            \* "ready": __init__ returned; "failed": __init__ raised
    s_num,  \* loop position in __init__
    nops,   \* calls made since __init__ returned
    ret     \* the last call: operation, argument, exception, result

vars == <<self, lazy, skip, pc, s_num, nops, ret>>

\* before: self._state of the symbol looked up, when the call was made
Result(op, name, before, err, obj, names, ex) ==
    [op |-> op, name |-> name, before |-> before, err |-> err,
     obj |-> obj, names |-> names, ex |-> ex]

Settled(f) == [f EXCEPT !.err = NoErr]

Init ==
    /\ \E api \in Files : self = NewFile(api)
    /\ lazy \in BOOLEAN
    /\ skip \in {s \in SkipSets : s \subseteq NamesOf(self.api)}
    /\ pc = "open"
    /\ s_num = 0
    /\ nops = 0
    /\ ret = Result("", "", "", NoErr, 0, {}, NoExtract)

\* A step of __init__ ends: the loop goes on, the next phase starts, or the
\* exception leaves the constructor.
Stepped(f1, name, len, after) ==
    /\ self' = Settled(f1)
    /\ ret' = Result("open", name, "", f1.err, 0, {}, NoExtract)
    /\ pc' = IF Failed(f1) THEN "failed"
             ELSE IF s_num + 1 < len THEN pc
             ELSE after
    /\ s_num' = IF s_num + 1 < len THEN s_num + 1 ELSE 0
    /\ UNCHANGED <<lazy, skip, nops>>

\* One iteration of "for s_num in range(sc + 1)".
ReadSymbol ==
    /\ pc = "open"
    /\ Stepped(ReadOne(self, s_num, skip), self.api[s_num + 1].name,
               Len(self.api), IF lazy THEN "ready" ELSE "eager")

\* One iteration of "for name in filter(None, self._index)" (not lazy).
LoadEager ==
    /\ pc = "eager"
    /\ Stepped(EagerOne(self, self.index[s_num + 1], skip),
               self.index[s_num + 1], Len(self.index), "ready")

Call ==
    /\ pc = "ready"
    /\ nops < MaxOps
    /\ nops' = nops + 1
    /\ UNCHANGED <<lazy, skip, pc, s_num>>

\* A call returns the variable of key, or raises.
Returned(op, name, f1, key) ==
    /\ self' = Settled(f1)
    /\ ret' = Result(op, name, self.state[key].tag, f1.err,
                     IF Failed(f1) THEN 0 ELSE f1.variables[key],
                     {}, NoExtract)

\* f[key]
Get(key) ==
    /\ Call
    /\ Returned("get", key, GetItem(self, key), key)

\* f.get_symbol_by_index(index); index = len(self._index) is out of range,
\* and self[None] raises KeyError
GetSymbolByIndex(index) ==
    /\ Call
    /\ IF index >= Len(self.index)
       THEN /\ self' = self
            /\ ret' = Result("get_symbol_by_index", None, "", "IndexError",
                             0, {}, NoExtract)
       ELSE IF self.index[index + 1] = None
       THEN /\ self' = self
            /\ ret' = Result("get_symbol_by_index", None, "", "KeyError",
                             0, {}, NoExtract)
       ELSE Returned("get_symbol_by_index", self.index[index + 1],
                     GetItem(self, self.index[index + 1]),
                     self.index[index + 1])

\* f.dealias(name)
Dealias(name) ==
    /\ Call
    /\ Returned("dealias", name, GetItem(self, DealiasKey(self, name)),
                DealiasKey(self, name))

Extracted(r, name) ==
    /\ self' = Settled(r.f)
    /\ ret' = Result("extract", name, self.state[name].tag, r.f.err, 0, {},
                     r.ex)

\* f.extract(name)
ExtractCall(name) ==
    /\ Call
    /\ Extracted(Extract(self, name), name)

Informed(f1, name) ==
    /\ self' = Settled(f1)
    /\ ret' = Result("info", name, self.state[name].tag, f1.err, 0, {},
                     NoExtract)

\* f.info(name)
InfoCall(name) ==
    /\ Call
    /\ Informed(Info(self, name), name)

Listed(op, type_code) ==
    /\ self' = self
    /\ ret' = IF LoadedAndCachedFails(self)
              THEN Result(op, "", "", "KeyError", 0, {}, NoExtract)
              ELSE Result(op, "", "", NoErr, 0,
                          LoadedAndCached(self, type_code), NoExtract)

\* [k for k in self[name].to_index() if k != '']
Elements(f, name) == Values(f, name) \ {Fill}

\* to_index() is defined for a 1-D array only
SetChecked(f1, name) ==
    IF Failed(f1) THEN f1
    ELSE IF NDim(f1, name) # 1 THEN Raise(f1, "ValueError")
    ELSE f1

SetReturned(f2, name) ==
    /\ self' = Settled(f2)
    /\ ret' = Result("set", name, self.state[name].tag, f2.err, 0,
                     IF Failed(f2) THEN {} ELSE Elements(f2, name),
                     NoExtract)

\* f.set(name)
SetCall(name) ==
    /\ Call
    /\ SetReturned(SetChecked(GetItem(self, name), name), name)

\* f.sets()
Sets ==
    /\ Call
    /\ Listed("sets", GMS_DT_SET)

\* f.parameters()
Parameters ==
    /\ Call
    /\ Listed("parameters", GMS_DT_PAR)

\* Arguments of the calls: the names of the file and an unknown name.
Callable == NamesOf(self.api) \cup {"nx"}

Next ==
    \/ ReadSymbol
    \/ LoadEager
    \/ \E key \in Callable : Get(key)
    \/ \E index \in 0..Len(self.index) : GetSymbolByIndex(index)
    \/ \E name \in Callable : Dealias(name)
    \/ \E name \in Callable : ExtractCall(name)
    \/ \E name \in Callable : InfoCall(name)
    \/ \E name \in Callable : SetCall(name)
    \/ Sets
    \/ Parameters

Spec == Init /\ [][Next]_vars


(***************************************************************************)
(* Vocabulary of the properties.                                           *)
(***************************************************************************)
SymOf(name) == CHOOSE sym \in Range(self.api) : sym.name = name
Kind(name) == SymOf(name).type_code
IsData(name) == Kind(name) \in {GMS_DT_PAR, GMS_DT_VAR}
ParentName(name) == ParentOf(SymOf(name).desc)

\* load states of the lazy pipeline
Declared(name) == self.state[name].tag = "dict" /\ ~self.state[name].cached
DataCached(name) == self.state[name].tag = "dict" /\ self.state[name].cached
Materialized(name) == self.state[name].tag = "True"

\* the labels a record stream shows in dimension i
Observed(name, i) ==
    {SymOf(name).stream[n].labels[i] : n \in DOMAIN SymOf(name).stream}

\* the labels of a 1-D Set itself (a sub-Set is stored with "" for the
\* labels of its root that it lacks)
OwnLabels(name) == Values(self, name) \ {Fill}

\* the domain a materialized symbol ended with
FinalDomain(name) ==
    IF Var(self, name).attrs.domain_inferred # <<>>
    THEN Var(self, name).attrs.domain_inferred
    ELSE Var(self, name).attrs.domain

Lookups == {"get", "get_symbol_by_index", "dealias"}
Accesses == Lookups \cup {"extract", "set"}

\* the empty Set SameAs(*,*) that _load_symbol_data drops
SameAsArtefact(name) ==
    /\ name = "SameAs"
    /\ SymOf(name).domain = <<Star, Star>>
    /\ SymOf(name).records = 0

C2_SkippedNeverLoaded ==
    \A n \in skip :
        /\ self.streams[n] = 0
        /\ ~HasVar(self, n)
        /\ ~DataCached(n)
        /\ ~Materialized(n)

(***************************************************************************)
(* C3                                                                      *)
(***************************************************************************)
\* C3, as stated: when the constructor has returned, every Set not in skip
\* is Materialized, a Parameter or Variable not in skip is Materialized
\* exactly when lazy is false, and with lazy every Parameter and Variable is
\* still Declared with no stream started.
C3_OpenPolicy ==
    (pc = "ready" /\ nops = 0) =>
        \A n \in NamesOf(self.api) :
            /\ (Kind(n) = GMS_DT_SET /\ n \notin skip) => Materialized(n)
            /\ (IsData(n) /\ n \notin skip) => (Materialized(n) <=> ~lazy)
            /\ (IsData(n) /\ lazy)
                   => (Declared(n) /\ self.streams[n] = 0)

\* C3, as amended: as C3 is stated, except that the empty Set SameAs(*,*)
\* is dropped instead of Materialized (state None, no array, its slot of
\* the index cleared); and with lazy a Parameter or Variable stays Declared
\* until the first get, get_symbol_by_index, dealias, extract or set of it.
C3_OpenPolicyButSameAs ==
    /\ []((pc = "ready" /\ nops = 0) =>
            \A n \in NamesOf(self.api) :
                /\ (Kind(n) = GMS_DT_SET /\ n \notin skip /\ ~SameAsArtefact(n))
                       => Materialized(n) /\ HasVar(self, n)
                /\ (Kind(n) = GMS_DT_SET /\ n \notin skip /\ SameAsArtefact(n))
                       => /\ self.state[n].tag = "None"
                          /\ ~HasVar(self, n)
                          /\ n \notin Range(self.index)
                /\ (IsData(n) /\ n \notin skip)
                       => (Materialized(n) <=> ~lazy)
                /\ (IsData(n) /\ lazy)
                       => (Declared(n) /\ self.streams[n] = 0))
    /\ [][\A n \in NamesOf(self.api) :
            (pc = "ready" /\ lazy /\ IsData(n) /\ Declared(n)
                /\ ~(ret'.op \in Accesses /\ ret'.name = n))
                => /\ self'.state[n] = self.state[n]
                   /\ self'.streams[n] = self.streams[n]
                   /\ ~HasVar(self', n)]_vars

\* C3: a lazy constructor returned, leaving a Parameter Declared, a Set
\* Materialized and the SameAs artefact dropped.
C3_Witness ==
    /\ pc = "ready"
    /\ nops = 0
    /\ lazy
    /\ \E n \in NamesOf(self.api) : Kind(n) = GMS_DT_PAR /\ Declared(n)
    /\ \E n \in NamesOf(self.api) : Kind(n) = GMS_DT_SET /\ Materialized(n)
    /\ \E n \in NamesOf(self.api) :
          SameAsArtefact(n) /\ self.state[n].tag = "None"

(***************************************************************************)
(* C4                                                                      *)
(***************************************************************************)
\* coordinates registered before the symbol was added, in registration order
CoordsBefore(name) ==
    LET cs == Coords(self)
        pos == IF name \in Range(cs)
               THEN CHOOSE n \in DOMAIN cs : cs[n] = name
               ELSE Len(cs) + 1
    IN SubSeq(cs, 1, pos - 1)

\* 1-D coordinates whose own labels contain e, in registration order
Candidates(name, e) ==
    SelectSeq(CoordsBefore(name),
              LAMBDA c : NDim(self, c) = 1 /\ e \subseteq OwnLabels(c))

\* the first candidate of the smallest cardinality, or '*' without candidate
SmallestSuperset(name, e) ==
    LET cs == Candidates(name, e)
    IN IF cs = <<>> THEN Star
       ELSE cs[CHOOSE n \in DOMAIN cs :
                 /\ \A m \in DOMAIN cs :
                       Cardinality(OwnLabels(cs[n]))
                           <= Cardinality(OwnLabels(cs[m]))
                 /\ \A m \in 1..(n - 1) :
                       Cardinality(OwnLabels(cs[m]))
                           > Cardinality(OwnLabels(cs[n]))]

\* C4: for a dimension declared over '*' with observed labels E # {}, the
\* domain chosen is the materialized 1-D coordinate with the fewest labels of
\* its own among those containing E (the first registered among equals), and
\* '*' when there is none.
C4_SmallestSuperset ==
    \A n \in NamesOf(self.api) :
        (pc = "ready" /\ Materialized(n) /\ HasVar(self, n)
            /\ Kind(n) \in {GMS_DT_SET, GMS_DT_PAR, GMS_DT_VAR})
            => \A i \in DOMAIN SymOf(n).domain :
                  (SymOf(n).domain[i] = Star /\ Observed(n, i) # {})
                      => FinalDomain(n)[i] = SmallestSuperset(n, Observed(n, i))

(***************************************************************************)
(* C5                                                                      *)
(***************************************************************************)
\* C5: a symbol is Materialized only if, in every dimension declared over a
\* set D other than '*', every label of its records is a label of D.
C5_LabelsInDeclaredDomain ==
    \A n \in NamesOf(self.api) :
        (pc = "ready" /\ Materialized(n)
            /\ Kind(n) \in {GMS_DT_SET, GMS_DT_PAR, GMS_DT_VAR})
            => \A i \in DOMAIN SymOf(n).domain :
                  (SymOf(n).domain[i] \notin {Star, n})
                      => /\ HasVar(self, SymOf(n).domain[i])
                         /\ Observed(n, i)
                                \subseteq OwnLabels(SymOf(n).domain[i])

(***************************************************************************)
(* C6                                                                      *)
(***************************************************************************)
\* C6: a symbol reaches DataCached or Materialized (or is dropped after its
\* data was read) only if the number of records streamed before the end of
\* the stream equals the declared record count.
C6_StreamedEqualsDeclared ==
    \A n \in NamesOf(self.api) :
        (Kind(n) \in {GMS_DT_SET, GMS_DT_PAR, GMS_DT_VAR}
            /\ (DataCached(n) \/ Materialized(n)))
            => Len(SymOf(n).stream) = SymOf(n).records

(***************************************************************************)
(* C7                                                                      *)
(***************************************************************************)
\* an Alias whose parent is not a Set
UnsupportedAlias(name) ==
    /\ Kind(name) = GMS_DT_ALIAS
    /\ ParentName(name) \in NamesOf(self.api)
    /\ Kind(ParentName(name)) # GMS_DT_SET

\* C7: an Alias of a symbol that is not a Set does not make the constructor
\* fail, no record stream of its parent is started while the constructor
\* reads it, and each get of the alias raises NotImplementedError.
C7_UnsupportedOnlyOnAccess ==
    /\ (pc = "failed" /\ ret.name \in NamesOf(self.api))
           => ~UnsupportedAlias(ret.name)
    /\ \A q \in NamesOf(self.api) :
          (UnsupportedAlias(q) /\ lazy /\ nops = 0)
              => self.streams[ParentName(q)] = 0
    /\ (ret.op = "get" /\ ret.name \in NamesOf(self.api)
           /\ UnsupportedAlias(ret.name))
           => ret.err = "NotImplementedError"

(***************************************************************************)
(* C8                                                                      *)
(***************************************************************************)
\* an Alias whose parent is a Set
SetAlias(name) ==
    /\ Kind(name) = GMS_DT_ALIAS
    /\ ParentName(name) \in NamesOf(self.api)
    /\ Kind(ParentName(name)) = GMS_DT_SET

\* C8: once the constructor has returned, an Alias q of a Set P is
\* Materialized, no record stream was started for q, q and P are bound to
\* the same Variable object, and get(q), dealias(q) and get(P) return it.
C8_AliasSharesParent ==
    \A q \in NamesOf(self.api) :
        (pc = "ready" /\ SetAlias(q))
            => /\ Materialized(q)
               /\ self.streams[q] = 0
               /\ HasVar(self, q)
               /\ self.variables[q] = self.variables[ParentName(q)]
               /\ (ret.op \in {"get", "dealias"} /\ ret.name = q)
                      => (ret.err = NoErr
                          /\ ret.obj = self.variables[ParentName(q)])
               /\ (ret.op = "get" /\ ret.name = ParentName(q))
                      => (ret.err = NoErr /\ ret.obj = self.variables[q])

\* C8: dealias of an Alias of a Set returned an array, after another call.
C8_Witness ==
    /\ pc = "ready"
    /\ nops = 2
    /\ ret.op = "dealias"
    /\ ret.name \in NamesOf(self.api)
    /\ SetAlias(ret.name)
    /\ ret.obj # 0
    /\ ret.obj = self.variables[ParentName(ret.name)]

(***************************************************************************)
(* C9                                                                      *)
(***************************************************************************)
\* C9: extract of a symbol (other than '*' itself) that has an array
\* returns an array whose dimensions are the symbol's domain after
\* inference, and on a dimension declared over a sub-Set c of a root the
\* labels left are those of c.
C9_ExtractKeepsOwnDims ==
    (ret.op = "extract" /\ ret.name \in NamesOf(self.api) \ {Star}
        /\ Materialized(ret.name) /\ HasVar(self, ret.name))
        => /\ ret.err = NoErr
           /\ ret.ex.dims = FinalDomain(ret.name)
           /\ \A i \in DOMAIN ret.ex.dims :
                 (ret.ex.dims[i] # Star
                    /\ Var(self, ret.ex.dims[i]).dims # <<ret.ex.dims[i]>>)
                     => ret.ex.labels[i] = OwnLabels(ret.ex.dims[i])

(***************************************************************************)
(* C10                                                                     *)
(***************************************************************************)
\* C10: a symbol whose state is True has an array in the dataset.
C10_MaterializedHasArray ==
    \A n \in NamesOf(self.api) :
        (pc = "ready" /\ Materialized(n)) => HasVar(self, n)

====
